---- MODULE Spec2Model ----
(***************************************************************************)
(* Model of protocol/generator/struct_generator.go (pskopnik/adcl).        *)
(*                                                                         *)
(* StructGenerator turns the resolved parameters of a message into Go      *)
(* source for five accessors: Positional, PosLen, PosAt, Named, NamedGet.  *)
(* The model has two layers:                                               *)
(*   - the generator: each generateX operator computes, from the param     *)
(*     list, the abstract syntax of the function body that the Go code     *)
(*     emits through jen (cases, index expressions, operand lists);       *)
(*   - the emitted program: RunX operators give the Go meaning of that     *)
(*     syntax on a message instance (a string, a panic, or a rejection     *)
(*     by the Go compiler).                                                *)
(* generateFile puts the five methods into one file of one package: when   *)
(* any of them is not valid Go, none of them can be called.                *)
(* A singular str field (Go type string) is held as a one-element          *)
(* sequence; a non-singular one (Go type []string) as a sequence.          *)
(* Named str values are sequences of characters so that s[:2] and s[2:]    *)
(* are computed, not assumed.                                              *)
(***************************************************************************)
EXTENDS Integers, Sequences, FiniteSets, TLC

VARIABLES
    positionalParams,  \* s.positionalParams: resolved positional FieldInfos
    namedParams,       \* s.namedParams: resolved named FieldInfos
    posStr,            \* instance: str field of every positional param
    namedFld,          \* instance: value presence and str field of every named param
    Flags,             \* instance: the Flags map
    call,              \* the last accessor call and what it produced
    typeLetter,        \* s.typeLetter: name of the receiver of the generated methods
    message,           \* Generate: s.message, with the resolvers' outcome per param
    pc,                \* Generate: position in Generate / prepare / prepareParams
    idx,               \* Generate: loop index of prepareParams
    paramInfos,        \* Generate: local slice built by prepareParams
    err,               \* Generate: returned error
    output             \* Generate: what was written to standard output

vars == <<positionalParams, namedParams, posStr, namedFld, Flags, call,
          typeLetter, message, pc, idx, paramInfos, err, output>>

posVars == <<positionalParams, posStr>>
namedVars == <<namedParams, namedFld, Flags>>
genVars == <<typeLetter, message, pc, idx, paramInfos, err, output>>

-----------------------------------------------------------------------------
(* Bounds *)

MaxPositional == 3
MaxStatic == 2
MaxDynamic == 3

-----------------------------------------------------------------------------
(* Generic helpers *)

RECURSIVE SumSeq(_)
SumSeq(s) == IF s = <<>> THEN 0 ELSE Head(s) + SumSeq(Tail(s))

RECURSIVE Flatten(_)
Flatten(ss) == IF ss = <<>> THEN <<>> ELSE Head(ss) \o Flatten(Tail(ss))

SeqsUpTo(S, n) == UNION {[1..k -> S] : k \in 0..n}

-----------------------------------------------------------------------------
(* FieldInfo of positional params *)

MultiplicityStatic == "MultiplicityStatic"
MultiplicityDynamic == "MultiplicityDynamic"

FieldInfo(maybe, singular, multiplicity, count) ==
    [FieldIsMaybe |-> maybe, StrIsSingular |-> singular,
     Multiplicity |-> multiplicity, StaticMultiplicity |-> count]

\* The layouts a mapper composes: a singular string is one token (static
\* multiplicity 1); a sequence has a static count or a dynamic length.
SingularField(maybe) == FieldInfo(maybe, TRUE, MultiplicityStatic, 1)
StaticField(maybe, c) == FieldInfo(maybe, FALSE, MultiplicityStatic, c)
DynamicField(maybe) == FieldInfo(maybe, FALSE, MultiplicityDynamic, 0)

PositionalFieldInfos ==
    {SingularField(FALSE), DynamicField(FALSE)}
        \cup {StaticField(FALSE, c) : c \in 0..MaxStatic}

\* A resolved param: its FieldInfo and, for a named param, the flag name
\* that Mapper.Parser.Named.ParamName derives.
paramInfo(name, fi) == [Name |-> name, FieldInfo |-> fi]

\* The string held by element k of the str field of param f. The accessors
\* never inspect a positional string, so every element holds a string of
\* its own: no two positions of an instance can be confused.
PosString(f, k) == <<"str", f, k>>

\* The str values a param may hold: as many strings as its multiplicity.
StrValues(f, fi) ==
    IF fi.Multiplicity = MultiplicityStatic
    THEN {[k \in 1..fi.StaticMultiplicity |-> PosString(f, k)]}
    ELSE {[k \in 1..n |-> PosString(f, k)] : n \in 0..MaxDynamic}

RECURSIVE Instances(_, _)
Instances(P, f) ==
    IF f > Len(P) THEN {<<>>}
    ELSE {<<h>> \o t : h \in StrValues(f, P[f].FieldInfo), t \in Instances(P, f + 1)}

-----------------------------------------------------------------------------
(* Emitted expressions *)

Lit(n) == [t |-> "lit", v |-> n]
StrLit == [t |-> "strlit"]                 \* jen.Lit("i"): the Go string literal "i"
IdI == [t |-> "id"]                        \* jen.Id("i"): the argument of PosAt
DynamicMultiplicity(f) == [t |-> "len", f |-> f]

WellTyped(terms) == \A k \in 1..Len(terms) : terms[k].t # "strlit"
IsConstant(terms) == \A k \in 1..Len(terms) : terms[k].t = "lit"

EvalTerm(term, i, str) ==
    CASE term.t = "lit" -> term.v
      [] term.t = "id" -> i
      [] term.t = "len" -> Len(str[term.f])

\* Operands joined by one binary operator, grouped to the left as Go does.
RECURSIVE EvalJoin(_, _, _, _)
EvalJoin(terms, op, i, str) ==
    IF Len(terms) = 1 THEN EvalTerm(terms[1], i, str)
    ELSE LET l == EvalJoin(SubSeq(terms, 1, Len(terms) - 1), op, i, str)
             r == EvalTerm(terms[Len(terms)], i, str)
         IN IF op = "+" THEN l + r ELSE l - r

\* Outcomes of a call
Ok(v) == [kind |-> "ok", val |-> v]
IndexOutOfRange == [kind |-> "panic", val |-> "index out of range"]
SliceOutOfRange == [kind |-> "panic", val |-> "slice bounds out of range"]
CompileError == [kind |-> "compile error", val |-> "invalid operation"]
SyntaxError == [kind |-> "compile error", val |-> "syntax error"]
DuplicateArgument == [kind |-> "compile error", val |-> "duplicate argument"]

-----------------------------------------------------------------------------
(* Positional *)

numStatic(P) ==
    Cardinality({f \in 1..Len(P) : P[f].FieldInfo.Multiplicity = MultiplicityStatic})

\* s.<StrFieldName> and s.<StrFieldName>[k]
Field(f) == [f |-> f, indexed |-> FALSE, index |-> <<>>]
FieldAt(f, index) == [f |-> f, indexed |-> TRUE, index |-> index]

generatePositional(P) ==
    IF numStatic(P) = Len(P)
    THEN [kind |-> "literal",
          values |-> Flatten([f \in 1..Len(P) |->
              IF P[f].FieldInfo.StrIsSingular
              THEN <<Field(f)>>
              ELSE [k \in 1..P[f].FieldInfo.StaticMultiplicity |-> FieldAt(f, <<Lit(k - 1)>>)]])]
    ELSE IF numStatic(P) = 0 /\ Len(P) = 1
    THEN [kind |-> "field", values |-> <<Field(1)>>]
    ELSE [kind |-> "append",
          values |-> [f \in 1..Len(P) |->
              IF P[f].FieldInfo.StrIsSingular
              THEN [spread |-> FALSE, args |-> <<Field(f)>>]
              ELSE IF P[f].FieldInfo.Multiplicity = MultiplicityStatic
              THEN [spread |-> FALSE,
                    args |-> [k \in 1..P[f].FieldInfo.StaticMultiplicity |->
                                 FieldAt(f, <<Lit(k - 1)>>)]]
              ELSE [spread |-> TRUE, args |-> <<Field(f)>>]]]

\* Go: the value of s.F (a string) or s.F[index] (an element of a []string).
InRange(ref, i, str) ==
    \/ ~ref.indexed
    \/ LET n == EvalJoin(ref.index, "-", i, str)
       IN 0 <= n /\ n < Len(str[ref.f])

ValueOf(ref, i, str) ==
    IF ref.indexed
    THEN str[ref.f][EvalJoin(ref.index, "-", i, str) + 1]
    ELSE str[ref.f][1]

RunPositional(code, str) ==
    CASE code.kind = "literal" ->
            IF \A n \in 1..Len(code.values) : InRange(code.values[n], 0, str)
            THEN Ok([n \in 1..Len(code.values) |-> ValueOf(code.values[n], 0, str)])
            ELSE IndexOutOfRange
      [] code.kind = "field" -> Ok(str[code.values[1].f])
      [] code.kind = "append" ->
            IF \A f \in 1..Len(code.values) : \A n \in 1..Len(code.values[f].args) :
                   InRange(code.values[f].args[n], 0, str)
            THEN Ok(Flatten([f \in 1..Len(code.values) |->
                     IF code.values[f].spread
                     THEN str[code.values[f].args[1].f]
                     ELSE [n \in 1..Len(code.values[f].args) |->
                              ValueOf(code.values[f].args[n], 0, str)]]))
            ELSE IndexOutOfRange

-----------------------------------------------------------------------------
(* PosLen *)

RECURSIVE staticSum(_)
staticSum(P) ==
    IF P = <<>> THEN 0
    ELSE (IF Head(P).FieldInfo.Multiplicity = MultiplicityStatic
          THEN Head(P).FieldInfo.StaticMultiplicity ELSE 0) + staticSum(Tail(P))

\* The operands of stmt, one "+ <dynamic length>" per dynamic param, in order.
RECURSIVE dynamicLens(_, _)
dynamicLens(P, f) ==
    IF f > Len(P) THEN <<>>
    ELSE (IF P[f].FieldInfo.Multiplicity = MultiplicityStatic
          THEN <<>> ELSE <<DynamicMultiplicity(f)>>) \o dynamicLens(P, f + 1)

\* The operands of the returned sum.
generatePosLen(P) ==
    LET stmt == dynamicLens(P, 1)
    IN IF staticSum(P) > 0 \/ Len(stmt) = 0
       THEN <<Lit(staticSum(P))>> \o stmt
       ELSE stmt

RunPosLen(code, str) == Ok(EvalJoin(code, "+", 0, str))

-----------------------------------------------------------------------------
(* PosAt *)

\* All params static: one case per element, on the literal running index.
RECURSIVE staticCases(_, _, _)
staticCases(P, f, runningIndex) ==
    IF f > Len(P) THEN <<>>
    ELSE IF P[f].FieldInfo.StrIsSingular
    THEN <<[lit |-> runningIndex, ret |-> Field(f)]>>
             \o staticCases(P, f + 1, runningIndex + 1)
    ELSE [k \in 1..P[f].FieldInfo.StaticMultiplicity |->
             [lit |-> runningIndex + (k - 1), ret |-> FieldAt(f, <<Lit(k - 1)>>)]]
             \o staticCases(P, f + 1, runningIndex + P[f].FieldInfo.StaticMultiplicity)

\* The operands runningLenStmt joins by op (the trailing op removed).
runningLenStmt(runningStaticIndex, runningDynamicLens, dynamics) ==
    (IF runningStaticIndex > 0 \/ Len(runningDynamicLens) = 0
     THEN <<Lit(runningStaticIndex)>> ELSE <<>>)
        \o runningDynamicLens \o dynamics

\* Mixed multiplicity: one conditional case per singular param, per element of
\* a static param, and per dynamic param. A case is  i <op> <rhs joined by +>
\* and returns ret, whose index is <index joined by ->.
RECURSIVE mixedCases(_, _, _, _)
mixedCases(P, f, runningStaticIndex, runningDynamicLens) ==
    IF f > Len(P) THEN <<>>
    ELSE IF P[f].FieldInfo.StrIsSingular
    THEN <<[op |-> "==",
            rhs |-> runningLenStmt(runningStaticIndex, runningDynamicLens, <<>>),
            ret |-> Field(f)]>>
         \o mixedCases(P, f + 1, runningStaticIndex + 1, runningDynamicLens)
    ELSE IF P[f].FieldInfo.Multiplicity = MultiplicityStatic
    THEN [k \in 1..P[f].FieldInfo.StaticMultiplicity |->
            \* iteration i = k - 1 of the loop, runningStaticIndex grown by i
            [op |-> "==",
             rhs |-> runningLenStmt(runningStaticIndex + (k - 1), runningDynamicLens, <<>>),
             ret |-> FieldAt(f, <<Lit(k - 1)>>
                        \o runningLenStmt(runningStaticIndex + (k - 1),
                                          runningDynamicLens, <<>>))]]
         \o mixedCases(P, f + 1, runningStaticIndex + P[f].FieldInfo.StaticMultiplicity,
                       runningDynamicLens)
    ELSE <<[op |-> "<",
            rhs |-> runningLenStmt(runningStaticIndex, runningDynamicLens,
                                   <<DynamicMultiplicity(f)>>),
            ret |-> FieldAt(f, <<StrLit>>
                       \o runningLenStmt(runningStaticIndex, runningDynamicLens, <<>>))]>>
         \o mixedCases(P, f + 1, runningStaticIndex,
                       Append(runningDynamicLens, DynamicMultiplicity(f)))

generatePosAt(P) ==
    IF Len(P) = 0 THEN [kind |-> "panic", cases |-> <<>>]
    ELSE IF numStatic(P) = Len(P)
    THEN [kind |-> "switch i", cases |-> staticCases(P, 1, 0)]
    ELSE IF numStatic(P) = 0 /\ Len(P) = 1
    THEN [kind |-> "index", cases |-> <<>>]
    ELSE [kind |-> "switch", cases |-> mixedCases(P, 1, 0, <<>>)]

\* Go's type checker on an index expression: no arithmetic on a string
\* literal, and a constant index must not be negative.
IndexCompiles(ref) ==
    ref.indexed =>
        /\ WellTyped(ref.index)
        /\ IsConstant(ref.index) => EvalJoin(ref.index, "-", 0, <<>>) >= 0

Compiles(code) ==
    \A n \in 1..Len(code.cases) :
        /\ IndexCompiles(code.cases[n].ret)
        /\ code.kind = "switch" => WellTyped(code.cases[n].rhs)

Matches(code, n, i, str) ==
    IF code.kind = "switch i" THEN i = code.cases[n].lit
    ELSE IF code.cases[n].op = "==" THEN i = EvalJoin(code.cases[n].rhs, "+", i, str)
    ELSE i < EvalJoin(code.cases[n].rhs, "+", i, str)

Return(ref, i, str) ==
    IF InRange(ref, i, str) THEN Ok(ValueOf(ref, i, str)) ELSE IndexOutOfRange

RunPosAt(code, i, str) ==
    IF ~Compiles(code) THEN CompileError
    ELSE CASE code.kind = "panic" -> IndexOutOfRange
           [] code.kind = "index" -> Return(FieldAt(1, <<IdI>>), i, str)
           [] OTHER ->
                LET hits == {n \in 1..Len(code.cases) : Matches(code, n, i, str)}
                IN IF hits = {} THEN IndexOutOfRange
                   ELSE Return(code.cases[CHOOSE n \in hits : \A m \in hits : n <= m].ret,
                               i, str)

-----------------------------------------------------------------------------
(* Named params and the instance fields behind them *)

MaxNamed == 2

\* Flag names derived by ParamName, one per declared named param: the first
\* reads like a 2-character token, the others do not.
ParamName(f) == IF f = 1 THEN <<"x", "x">> ELSE [k \in 1..f |-> "N"]

NamedFieldInfos ==
    {SingularField(m) : m \in BOOLEAN} \cup {DynamicField(m) : m \in BOOLEAN}

\* Serialized named strings (sequences of characters): the zero value, and
\* <2-character token><value> with equal and with different tokens.
NamedStrings ==
    {<<>>, <<"x", "x", "v">>, <<"x", "x", "w">>, <<"x", "y", "w">>}

\* Keys and values of the free-form Flags map.
FlagKeys == {<<"x", "x">>, <<"N", "N">>}
FlagValues == {<<"f">>}
FlagMaps == UNION {[D -> FlagValues] : D \in SUBSET FlagKeys}

\* Keys NamedGet is asked for.
Keys == FlagKeys \cup {<<"x", "y">>} \cup {ParamName(f) : f \in 1..MaxNamed}

\* What the fields of a named param may hold: the zero value of the generated
\* struct (unset value, empty string, nil slice) or what a setter left.
NamedFieldValues(fi) ==
    {[IsSet |-> b, Str |-> v] :
        b \in (IF fi.FieldIsMaybe THEN BOOLEAN ELSE {FALSE}),
        v \in (IF fi.StrIsSingular
               THEN {<<c>> : c \in NamedStrings}
               ELSE {<<>>} \cup {<<c>> : c \in NamedStrings})}

RECURSIVE NamedInstances(_, _)
NamedInstances(N, f) ==
    IF f > Len(N) THEN {<<>>}
    ELSE {<<h>> \o t : h \in NamedFieldValues(N[f].FieldInfo),
                        t \in NamedInstances(N, f + 1)}

\* Go: s[:2] and s[2:], defined when len(s) >= 2.
SliceTo2(str) == SubSeq(str, 1, 2)
SliceFrom2(str) == SubSeq(str, 3, Len(str))

\* The condition generated for a param that is maybe or not singular:
\* <field>.IsSet && len(<str field>) > 0, each operand only where it applies.
condStmts(fi) ==
    (IF fi.FieldIsMaybe THEN <<"IsSet">> ELSE <<>>)
        \o (IF ~fi.StrIsSingular THEN <<"len > 0">> ELSE <<>>)

\* opJoin: the codes with op between them, as one list of items.
RECURSIVE opJoin(_, _)
opJoin(op, codes) ==
    IF Len(codes) <= 1 THEN codes
    ELSE <<Head(codes), op>> \o opJoin(op, Tail(codes))

\* jen.If takes the items of that list as separate arguments and renders
\* them separated by ";": one item is the condition of the if statement,
\* three (a; &&; b) are not Go. No items: the statement is not guarded.
IfParses(items) == Len(items) <= 1

EvalCond(items, fld) ==
    IF items = <<>> THEN TRUE
    ELSE IF items[1] = "IsSet" THEN fld.IsSet ELSE Len(fld.Str) > 0

\* strStmt: <str field>, or <str field>[0] when the str field is a slice.
\* Both are element 1 of the model's sequence.
StrStmt(fld) == fld.Str[1]

-----------------------------------------------------------------------------
(* Named *)

generateNamed(N) ==
    IF Len(N) = 0 THEN [kind |-> "return Flags", sets |-> <<>>]
    ELSE [kind |-> "build",
          sets |-> [f \in 1..Len(N) |->
                      [f |-> f, if |-> opJoin("&&", condStmts(N[f].FieldInfo))]]]

Put(params, key, val) ==
    [k \in DOMAIN params \cup {key} |-> IF k = key THEN val ELSE params[k]]

\* The statements after the copy of Flags, run in order on the map params.
RECURSIVE RunSets(_, _, _, _)
RunSets(sets, n, params, flds) ==
    IF \E m \in 1..Len(sets) : ~IfParses(sets[m].if) THEN SyntaxError
    ELSE IF n > Len(sets) THEN Ok(params)
    ELSE LET fld == flds[sets[n].f]
         IN IF ~EvalCond(sets[n].if, fld)
            THEN RunSets(sets, n + 1, params, flds)
            ELSE IF Len(StrStmt(fld)) < 2 THEN SliceOutOfRange
            ELSE RunSets(sets, n + 1,
                         Put(params, SliceTo2(StrStmt(fld)), SliceFrom2(StrStmt(fld))),
                         flds)

RunNamed(code, flds, flags) ==
    IF code.kind = "return Flags" THEN Ok(flags)
    ELSE RunSets(code.sets, 1, flags, flds)

-----------------------------------------------------------------------------
(* NamedGet *)

\* One case per named param: guarded by its condition, with an else block
\* returning ("", false), when the param is maybe or not singular.
generateNamedGet(N) ==
    [f \in 1..Len(N) |->
        [name |-> N[f].Name, f |-> f,
         if |-> opJoin("&&", condStmts(N[f].FieldInfo)),
         else |-> IF N[f].FieldInfo.FieldIsMaybe \/ ~N[f].FieldInfo.StrIsSingular
                  THEN "return" ELSE "none"]]

\* key, val := s.Flags[key]; return key, val
FlagsLookup(key, flags) ==
    IF key \in DOMAIN flags THEN Ok(<<flags[key], TRUE>>) ELSE Ok(<<<<>>, FALSE>>)

RunNamedGet(cases, key, flds, flags) ==
    LET hits == {n \in 1..Len(cases) : cases[n].name = key}
    IN IF \E m \in 1..Len(cases) : ~IfParses(cases[m].if) THEN SyntaxError
       ELSE IF hits # {}
       THEN LET c == cases[CHOOSE n \in hits : \A m \in hits : n <= m]
                fld == flds[c.f]
            IN IF ~EvalCond(c.if, fld)
               THEN IF c.else = "return" THEN Ok(<<<<>>, FALSE>>)
                    ELSE FlagsLookup(key, flags)    \* leaves the switch
               ELSE IF Len(StrStmt(fld)) < 2 THEN SliceOutOfRange
               ELSE Ok(<<SliceFrom2(StrStmt(fld)), TRUE>>)
       ELSE FlagsLookup(key, flags)

-----------------------------------------------------------------------------
(* The generated file *)

\* Commands of messages, as strings of characters.
Commands == {<<"I", "N", "F">>, <<"M", "S", "G">>}

typeName(command) == command \o <<"C", "o", "n", "t", "e", "n", "t">>

UpperCase == <<"A", "B", "C", "D", "E", "F", "G", "H", "I", "J", "K", "L", "M",
               "N", "O", "P", "Q", "R", "S", "T", "U", "V", "W", "X", "Y", "Z">>
LowerCase == <<"a", "b", "c", "d", "e", "f", "g", "h", "i", "j", "k", "l", "m",
               "n", "o", "p", "q", "r", "s", "t", "u", "v", "w", "x", "y", "z">>

\* strings.ToLower
ToLower(str) ==
    [n \in 1..Len(str) |->
        IF \E k \in 1..Len(UpperCase) : UpperCase[k] = str[n]
        THEN LowerCase[CHOOSE k \in 1..Len(UpperCase) : UpperCase[k] = str[n]]
        ELSE str[n]]

\* The methods' signatures: every method has the receiver s.typeLetter, and
\* PosAt the parameter i, NamedGet the parameter key.
Signatures(letter) ==
    [Positional |-> <<letter>>, PosLen |-> <<letter>>, PosAt |-> <<letter, <<"i">>>>,
     Named |-> <<letter>>, NamedGet |-> <<letter, <<"k", "e", "y">>>>]

\* Go wants the names of receiver and parameters of a method to differ.
SignatureCompiles(sig) == \A m, n \in 1..Len(sig) : m # n => sig[m] # sig[n]

generateFile(P, N, letter) ==
    [Signatures |-> Signatures(letter),
     Positional |-> generatePositional(P),
     PosLen |-> generatePosLen(P),
     PosAt |-> generatePosAt(P),
     Named |-> generateNamed(N),
     NamedGet |-> generateNamedGet(N)]

\* The file is Go syntax (gofmt, which jen's Render runs, accepts it): every
\* if statement of Named and NamedGet is.
Parses(N) ==
    /\ \A n \in 1..Len(N) : IfParses(generateNamed(N).sets[n].if)
    /\ \A n \in 1..Len(N) : IfParses(generateNamedGet(N)[n].if)

\* What go build says of the package holding the file: nothing when it
\* builds, else the error; no method of a file that does not build can run.
Build(P, N, letter) ==
    IF ~Parses(N) THEN SyntaxError
    ELSE IF \E m \in DOMAIN Signatures(letter) :
               ~SignatureCompiles(Signatures(letter)[m]) THEN DuplicateArgument
    ELSE IF ~Compiles(generatePosAt(P)) THEN CompileError
    ELSE Ok(<<>>)

File == generateFile(positionalParams, namedParams, typeLetter)
BuildFile == Build(positionalParams, namedParams, typeLetter)
Builds == BuildFile.kind = "ok"

\* The accessors of the generated type
Positional ==
    IF Builds THEN RunPositional(generatePositional(positionalParams), posStr)
    ELSE BuildFile
PosLen ==
    IF Builds THEN RunPosLen(generatePosLen(positionalParams), posStr) ELSE BuildFile
PosAt(i) ==
    IF Builds THEN RunPosAt(generatePosAt(positionalParams), i, posStr) ELSE BuildFile
Named ==
    IF Builds THEN RunNamed(generateNamed(namedParams), namedFld, Flags) ELSE BuildFile
NamedGet(key) ==
    IF Builds THEN RunNamedGet(generateNamedGet(namedParams), key, namedFld, Flags)
    ELSE BuildFile

-----------------------------------------------------------------------------
(* Generate *)

MaxParams == 2

\* Type names a param may declare: three that resolve (a string, a list, an
\* optional list), one without a TypeSpec, one without a mapper.
TypeNames == {"str", "list", "maybe list", "unknown", "nomapper"}

Messages ==
    [Command : Commands,
     PositionalParams : SeqsUpTo([Type : TypeNames], MaxParams),
     NamedParams : SeqsUpTo([Type : TypeNames], MaxParams)]

\* The external resolvers: TRUE when they return a nil error.
TypeSpecFromName(type) == type # "unknown"
ResolveMapperFromParam(param) == param.Type \notin {"unknown", "nomapper"}
ComposeFieldInfo(param) ==
    IF param.Type = "str" THEN SingularField(FALSE)
    ELSE DynamicField(param.Type = "maybe list")

\* The param list prepareParams is working on.
Params == IF pc = "positionalParams" THEN message.PositionalParams
          ELSE message.NamedParams

InPrepareParams == pc \in {"positionalParams", "namedParams"}

\* Variant: a param that fails to resolve is skipped (continue) and the
\* loop goes on.
Fail_SkipsParam(e) ==
    /\ idx' = idx + 1
    /\ UNCHANGED <<typeLetter, message, pc, paramInfos, err, output, posVars, namedVars, call>>

\* prepareParams returns (nil, err); prepare and Generate return err.
Fail(e) ==
    /\ err' = e
    /\ pc' = "returned"
    /\ IF pc = "positionalParams"
       THEN positionalParams' = <<>> /\ UNCHANGED namedParams
       ELSE namedParams' = <<>> /\ UNCHANGED positionalParams
    /\ UNCHANGED <<typeLetter, message, idx, paramInfos, output, posStr, namedFld, Flags, call>>

TypeResolutionFails ==
    /\ InPrepareParams /\ idx <= Len(Params)
    /\ ~TypeSpecFromName(Params[idx].Type)
    /\ Fail("type resolution failed")

MapperResolutionFails ==
    /\ InPrepareParams /\ idx <= Len(Params)
    /\ TypeSpecFromName(Params[idx].Type)
    /\ ~ResolveMapperFromParam(Params[idx])
    /\ Fail("mapper resolution failed")

AppendParamInfo ==
    /\ InPrepareParams /\ idx <= Len(Params)
    /\ TypeSpecFromName(Params[idx].Type)
    /\ ResolveMapperFromParam(Params[idx])
    /\ paramInfos' = Append(paramInfos,
           paramInfo(IF pc = "namedParams" THEN ParamName(idx) ELSE <<>>,
                     ComposeFieldInfo(Params[idx])))
    /\ idx' = idx + 1
    /\ UNCHANGED <<typeLetter, message, pc, err, output, posVars, namedVars, call>>

\* s.positionalParams, err = s.prepareParams(s.message.PositionalParams)
PositionalPrepared ==
    /\ pc = "positionalParams" /\ idx > Len(Params)
    /\ positionalParams' = paramInfos
    /\ pc' = "namedParams" /\ idx' = 1 /\ paramInfos' = <<>>
    /\ UNCHANGED <<typeLetter, message, err, output, posStr, namedVars, call>>

\* s.namedParams, err = s.prepareParams(s.message.NamedParams)
\* s.typeName = s.message.Command + "Content"
\* s.typeLetter = strings.ToLower(s.typeName[0:1])
NamedPrepared ==
    /\ pc = "namedParams" /\ idx > Len(Params)
    /\ namedParams' = paramInfos
    /\ typeLetter' = ToLower(SubSeq(typeName(message.Command), 1, 1))
    /\ pc' = "generateFile" /\ paramInfos' = <<>>
    /\ UNCHANGED <<message, idx, err, output, positionalParams, posStr, namedFld,
                   Flags, call>>

\* file := s.generateFile(); file.Render(buf); fmt.Println(buf.String())
\* Render formats the source and writes it to buf; when the source does not
\* parse it writes nothing and returns an error, which Generate drops: the
\* empty buffer is printed.
Render == IF Parses(namedParams) THEN <<File>> ELSE <<>>

RenderFile ==
    /\ pc = "generateFile"
    /\ output' = Append(output, Render)
    /\ pc' = "returned"
    /\ UNCHANGED <<typeLetter, message, idx, paramInfos, err, posVars, namedVars, call>>

-----------------------------------------------------------------------------
(* Accessor calls on an instance of the generated type *)

NoCall == [op |-> "none"]

CallPositional ==
    /\ pc = "positional instance"
    /\ call' = [op |-> "Positional", ret |-> Positional]
    /\ UNCHANGED <<posVars, namedVars, genVars>>

CallPosLen ==
    /\ pc = "positional instance"
    /\ call' = [op |-> "PosLen", ret |-> PosLen]
    /\ UNCHANGED <<posVars, namedVars, genVars>>

CallPosAt(i) ==
    /\ pc = "positional instance"
    /\ call' = [op |-> "PosAt", arg |-> i, ret |-> PosAt(i)]
    /\ UNCHANGED <<posVars, namedVars, genVars>>

CallNamed ==
    /\ pc = "named instance"
    /\ call' = [op |-> "Named", ret |-> Named]
    /\ UNCHANGED <<posVars, namedVars, genVars>>

CallNamedGet(key) ==
    /\ pc = "named instance"
    /\ call' = [op |-> "NamedGet", arg |-> key, ret |-> NamedGet(key)]
    /\ UNCHANGED <<posVars, namedVars, genVars>>

-----------------------------------------------------------------------------
(* Specifications *)

\* The generator has run for a message with some command; what is left of
\* it is the generated type.
NoGenerate ==
    /\ \E command \in Commands :
          /\ message = [Command |-> command, PositionalParams |-> <<>>,
                        NamedParams |-> <<>>]
          /\ typeLetter = ToLower(SubSeq(typeName(command), 1, 1))
    /\ idx = 1 /\ paramInfos = <<>> /\ err = "nil" /\ output = <<>>

\* Every positional schema with every instance whose str fields have the
\* length of their multiplicity.
InitPos ==
    /\ pc = "positional instance"
    /\ positionalParams \in
          SeqsUpTo({paramInfo(<<>>, fi) : fi \in PositionalFieldInfos}, MaxPositional)
    /\ posStr \in Instances(positionalParams, 1)
    /\ namedParams = <<>> /\ namedFld = <<>> /\ Flags = <<>>
    /\ call = NoCall
    /\ NoGenerate

\* The indices PosAt is called with: from below 0 to beyond the number of
\* strings the instance holds.
Indices == -1..(SumSeq([f \in 1..Len(posStr) |-> Len(posStr[f])]) + 1)

NextPos ==
    \/ CallPositional
    \/ CallPosLen
    \/ \E i \in Indices : CallPosAt(i)

SpecPos == InitPos /\ [][NextPos]_vars

\* Every named schema, with every instance the message type's code can
\* leave behind, the zero value of the generated type among them.
InitNamed ==
    /\ pc = "named instance"
    /\ \E n \in 0..MaxNamed : \E fis \in [1..n -> NamedFieldInfos] :
          namedParams = [f \in 1..n |-> paramInfo(ParamName(f), fis[f])]
    /\ namedFld \in NamedInstances(namedParams, 1)
    /\ Flags \in FlagMaps
    /\ positionalParams = <<>> /\ posStr = <<>>
    /\ call = NoCall
    /\ NoGenerate

NextNamed ==
    \/ CallNamed
    \/ \E key \in Keys : CallNamedGet(key)

SpecNamed == InitNamed /\ [][NextNamed]_vars

InitGen ==
    /\ pc = "positionalParams"
    /\ message \in Messages
    /\ typeLetter = <<>>
    /\ idx = 1 /\ paramInfos = <<>> /\ err = "nil" /\ output = <<>>
    /\ positionalParams = <<>> /\ namedParams = <<>>
    /\ posStr = <<>> /\ namedFld = <<>> /\ Flags = <<>>
    /\ call = NoCall

NextGen ==
    \/ TypeResolutionFails
    \/ MapperResolutionFails
    \/ AppendParamInfo
    \/ PositionalPrepared
    \/ NamedPrepared
    \/ RenderFile

SpecGen == InitGen /\ [][NextGen]_vars

Init == InitPos \/ InitNamed \/ InitGen
Next == NextPos \/ NextNamed \/ NextGen
Spec == Init /\ [][Next]_vars

-----------------------------------------------------------------------------
(* Vocabulary of the properties *)

AllStatic == numStatic(positionalParams) = Len(positionalParams)
SingleDynamic == numStatic(positionalParams) = 0 /\ Len(positionalParams) = 1
Mixed == ~AllStatic /\ ~SingleDynamic

IsStaticMulti(f) ==
    /\ ~positionalParams[f].FieldInfo.StrIsSingular
    /\ positionalParams[f].FieldInfo.Multiplicity = MultiplicityStatic
IsDynamic(f) == positionalParams[f].FieldInfo.Multiplicity = MultiplicityDynamic

\* Number of strings all params before f contribute: their static counts
\* plus the current lengths of the dynamic ones.
Offset(f) == SumSeq([g \in 1..(f - 1) |-> Len(posStr[g])])

\* Number of strings the instance holds in all its positional params.
Total == Offset(Len(positionalParams) + 1)

\* The declared static counts, added up.
DeclaredSum ==
    SumSeq([f \in 1..Len(positionalParams) |->
               positionalParams[f].FieldInfo.StaticMultiplicity])

\* The case of the generated switch that PosAt(i) selects, 0 for default.
MatchedCase(i) ==
    LET code == generatePosAt(positionalParams)
        hits == {n \in 1..Len(code.cases) : Matches(code, n, i, posStr)}
    IN IF hits = {} THEN 0 ELSE CHOOSE n \in hits : \A m \in hits : n <= m

\* What the return statement of one case yields, taken by itself.
ReturnOf(ref, i, str) ==
    IF IndexCompiles(ref) THEN Return(ref, i, str) ELSE CompileError

\* Number of strings the code of Positional takes from param f.
Contribution(f) ==
    LET code == generatePositional(positionalParams)
    IN CASE code.kind = "literal" ->
              Cardinality({n \in 1..Len(code.values) : code.values[n].f = f})
         [] code.kind = "field" -> Len(posStr[f])
         [] code.kind = "append" ->
              IF code.values[f].spread THEN Len(posStr[f])
              ELSE Len(code.values[f].args)

\* The presence rule of a declared named param.
Present(f) ==
    /\ namedParams[f].FieldInfo.FieldIsMaybe => namedFld[f].IsSet
    /\ ~namedParams[f].FieldInfo.StrIsSingular => Len(namedFld[f].Str) > 0

Representative(f) == namedFld[f].Str[1]
Token(f) == SubSeq(Representative(f), 1, 2)
Value(f) == SubSeq(Representative(f), 3, Len(Representative(f)))

\* Every present declared param holds <2-character token><value>.
PresentWellFormed ==
    \A f \in 1..Len(namedParams) : Present(f) => Len(Representative(f)) >= 2

Declared(key) == {f \in 1..Len(namedParams) : namedParams[f].Name = key}

\* Index and kind of the first param that fails to resolve, positional
\* params first; 0 when every param resolves.
AllParams == message.PositionalParams \o message.NamedParams
Resolves(param) == TypeSpecFromName(param.Type) /\ ResolveMapperFromParam(param)
Failing == {n \in 1..Len(AllParams) : ~Resolves(AllParams[n])}
FirstFailing == CHOOSE n \in Failing : \A m \in Failing : n <= m

-----------------------------------------------------------------------------
(* Properties *)

\* C1: for every positional schema and instance, PosAt(i) with
\* 0 <= i < PosLen() returns element i of the sequence Positional() returns.
C1_PosAtEqualsPositional ==
    (call.op = "PosAt" /\ 0 <= call.arg /\ call.arg < Total) =>
        /\ Positional.kind = "ok"
        /\ call.ret = Ok(Positional.val[call.arg + 1])

\* C2: PosAt(i) with i < 0 or i >= PosLen() ends in an index-out-of-range
\* fault, in every regime and for the empty schema.
C2_PosAtOutsideFaults ==
    (call.op = "PosAt" /\ (call.arg < 0 \/ call.arg >= Total)) =>
        call.ret = IndexOutOfRange

\* C3: when every positional param is static, PosLen() is the literal sum of
\* the declared static counts and Positional() has exactly that many elements.
C3_AllStaticLen ==
    AllStatic =>
        /\ generatePosLen(positionalParams) = <<Lit(DeclaredSum)>>
        /\ call.op = "PosLen" => call.ret = Ok(DeclaredSum)
        /\ call.op = "Positional" =>
              call.ret.kind = "ok" /\ Len(call.ret.val) = DeclaredSum

\* C4: with at least one declared named param, Named() is the Flags map
\* overwritten, in declaration order, by value-after-position-2 under
\* first-2-characters of every present declared param: the last declared
\* present param wins a key, absent params insert nothing, no other keys.
C4_NamedMerge ==
    (call.op = "Named" /\ Len(namedParams) > 0 /\ PresentWellFormed) =>
        LET present == {f \in 1..Len(namedParams) : Present(f)}
            holders(k) == {f \in present : Token(f) = k}
            last(k) == CHOOSE f \in holders(k) : \A g \in holders(k) : g <= f
        IN /\ call.ret.kind = "ok"
           /\ DOMAIN call.ret.val = DOMAIN Flags \cup {Token(f) : f \in present}
           /\ \A k \in DOMAIN call.ret.val :
                 call.ret.val[k] = IF holders(k) # {} THEN Value(last(k)) ELSE Flags[k]

\* C5: NamedGet on the flag name of a declared param that is not present
\* returns ("", false) whatever Flags holds; Flags is consulted only for a
\* key that is no declared flag name.
C5_AbsentNeverFallsThrough ==
    call.op = "NamedGet" =>
        \A f \in Declared(call.arg) :
            /\ ~Present(f) => call.ret = Ok(<<<<>>, FALSE>>)
            /\ \A m \in FlagMaps :
                  RunNamedGet(generateNamedGet(namedParams), call.arg, namedFld, m)
                      = call.ret

\* C6: NamedGet never faults: for every schema, instance (the zero value
\* included) and key it returns a (string, found) pair.
C6_NamedGetNeverFaults ==
    call.op = "NamedGet" => call.ret.kind = "ok"

\* C7: Generate resolves the positional params, then the named ones; when a
\* param fails type or mapper resolution it returns that error and writes
\* nothing; it writes its output, once, only after every param of both lists
\* resolved, and what it writes then is the generated file or nothing.
C7_AllOrNothing ==
    /\ output # <<>> =>
          /\ pc = "returned" /\ err = "nil" /\ Failing = {}
          /\ Len(positionalParams) = Len(message.PositionalParams)
          /\ Len(namedParams) = Len(message.NamedParams)
    /\ err # "nil" => output = <<>> /\ pc = "returned"
    /\ pc = "returned" =>
          IF Failing = {}
          THEN /\ err = "nil" /\ Len(output) = 1
               /\ output[1] \in {<<>>, <<File>>}
          ELSE /\ output = <<>>
               /\ err = IF TypeSpecFromName(AllParams[FirstFailing].Type)
                        THEN "mapper resolution failed"
                        ELSE "type resolution failed"
    /\ pc \in {"namedParams", "generateFile"} =>
          \A n \in 1..Len(message.PositionalParams) :
              Resolves(message.PositionalParams[n])

C7_Witness ==
    /\ pc = "returned" /\ err = "mapper resolution failed" /\ output = <<>>
    /\ Len(message.PositionalParams) = 2 /\ Len(positionalParams) = 2
    /\ Len(message.NamedParams) = 2 /\ Resolves(message.NamedParams[1])

\* C8: in the mixed regime a static multi-valued param with count c at
\* running offset r is matched by exactly the indices r..r+c-1, and the
\* matching case returns element i - r of the param's string sequence.
C8_StaticMultiCase ==
    (call.op = "PosAt" /\ Mixed) =>
        \A f \in 1..Len(positionalParams) : IsStaticMulti(f) =>
            LET code == generatePosAt(positionalParams)
                n == MatchedCase(call.arg)
                r == Offset(f)
                c == positionalParams[f].FieldInfo.StaticMultiplicity
                inside == r <= call.arg /\ call.arg < r + c
            IN /\ inside <=> (n # 0 /\ code.cases[n].ret.f = f)
               /\ inside => ReturnOf(code.cases[n].ret, call.arg, posStr)
                               = Ok(posStr[f][call.arg - r + 1])

\* C9: in the mixed regime a dynamic param of length n at running offset r
\* is matched by i < r + n when no earlier param matched, and the matching
\* case returns element i - r; so for a singular param followed by a dynamic
\* one of length 3, PosLen() = 4, PosAt(0) is the singular string, PosAt(1..3)
\* are elements 0..2 and PosAt(4) faults.
C9_DynamicCase ==
    /\ (call.op = "PosAt" /\ Mixed) =>
          \A f \in 1..Len(positionalParams) : IsDynamic(f) =>
              LET code == generatePosAt(positionalParams)
                  n == MatchedCase(call.arg)
                  r == Offset(f)
              IN (r <= call.arg /\ call.arg < r + Len(posStr[f])) =>
                    /\ n # 0 /\ code.cases[n].ret.f = f
                    /\ ReturnOf(code.cases[n].ret, call.arg, posStr)
                          = Ok(posStr[f][call.arg - r + 1])
    /\ (/\ Len(positionalParams) = 2
        /\ positionalParams[1].FieldInfo.StrIsSingular
        /\ IsDynamic(2) /\ Len(posStr[2]) = 3) =>
          /\ call.op = "PosLen" => call.ret = Ok(4)
          /\ (call.op = "PosAt" /\ call.arg = 0) => call.ret = Ok(posStr[1][1])
          /\ (call.op = "PosAt" /\ call.arg \in 1..3) =>
                call.ret = Ok(posStr[2][call.arg])
          /\ (call.op = "PosAt" /\ call.arg = 4) => call.ret = IndexOutOfRange

\* C10: in every regime Positional() has PosLen() elements, and the number
\* of strings Positional takes from each param is the term PosLen adds for
\* it: the static count of a static param, the current length of a dynamic one.
C10_PositionalLenIsPosLen ==
    /\ call.op = "Positional" =>
          /\ call.ret.kind = "ok" /\ PosLen.kind = "ok"
          /\ Len(call.ret.val) = PosLen.val
    /\ call.op = "PosLen" =>
          call.ret = Ok(SumSeq([f \in 1..Len(positionalParams) |-> Contribution(f)]))
    /\ \A f \in 1..Len(positionalParams) :
          Contribution(f) = IF IsDynamic(f) THEN Len(posStr[f])
                            ELSE positionalParams[f].FieldInfo.StaticMultiplicity

====
